---- MODULE Spec2Model ----
(***************************************************************************)
(* A model of HarfBuzz's shape-plan subsystem (src/src/hb-shape-plan.cc):  *)
(* shaper selection, plan creation, reference counting, the per-face       *)
(* lock-free plan cache, and execution dispatch.                           *)
(*                                                                         *)
(* Pointers are small integers.  Plan 0 is the Null (inert) plan object    *)
(* that hb_shape_plan_get_empty returns; node 0 and array 0 are nullptr.   *)
(***************************************************************************)
EXTENDS Integers, Sequences, FiniteSets, TLC

VARIABLES
  faces,      \* hb_face_t objects: cache head, immutable flag, per-shaper data
  plans,      \* heap of hb_shape_plan_t objects
  nodes,      \* heap of hb_face_t::plan_node_t objects
  arrays,     \* heap of calloc'ed feature / coordinate arrays
  thr,        \* per thread: program counter and the locals of the running call
  held,       \* per plan: the references callers own and have not destroyed
  hist,       \* history: memory faults seen, what create_cached2 calls returned,
              \* failed exchanges counted
  budget,     \* remaining API calls and remaining injected allocation failures
  dFace,      \* dispatch scenario: the face
  dFont,      \* dispatch scenario: the font
  dPlan,      \* dispatch scenario: the plan handed to execute
  dBuf,       \* dispatch scenario: the buffer after the last execute
  dSel,       \* dispatch scenario: the last shaper selection, with its inputs
  dOut        \* dispatch scenario: the outcome of the last execute

cacheVars == <<faces, plans, nodes, arrays, thr, held, hist, budget>>
dispVars  == <<dFace, dFont, dPlan, dBuf, dSel, dOut>>
vars      == <<faces, plans, nodes, arrays, thr, held, hist, budget,
               dFace, dFont, dPlan, dBuf, dSel, dOut>>

(***************************************************************************)
(* Bounds of the model.                                                    *)
(***************************************************************************)
MaxCalls == 2      \* API calls in a run of the cache specification
MaxFails == 2      \* injected allocation / initialization failures
MaxListLen == 2    \* length of a shaper list in the selection specification

Threads == {"t1", "t2"}

(***************************************************************************)
(* Shapers.  The chain of HB_SHAPER_IMPLEMENT entries (hb-shaper-list.hh)  *)
(* and the table _hb_shapers_get() returns, in priority order.             *)
(***************************************************************************)
Shapers == <<"graphite2", "ot", "fallback">>
ShaperNames == {Shapers[i] : i \in 1..Len(Shapers)}
HB_SHAPERS_COUNT == Len(Shapers)

NullFunc == "nullptr"
NullName == "nullptr"

ShapeFunc(shaper) ==
  CASE shaper = "graphite2" -> "_hb_graphite2_shape"
    [] shaper = "ot"        -> "_hb_ot_shape"
    [] shaper = "fallback"  -> "_hb_fallback_shape"

\* shapers[i].func of the table _hb_shapers_get() returns
ShapersTableFunc(i) == ShapeFunc(Shapers[i])

\* Names a caller may put in a shaper list; "bogus" matches no shaper.
ListNames == ShaperNames \cup {"bogus"}

RECURSIVE SeqsUpTo(_, _)
SeqsUpTo(S, n) ==
  IF n = 0 THEN {<<>>}
  ELSE LET shorter == SeqsUpTo(S, n - 1)
       IN  shorter \cup {Append(s, x) : s \in shorter, x \in S}

(***************************************************************************)
(* Faces and fonts: lazily created, memoized per-shaper data.              *)
(* data[s] is "unset" before the first ensure, then "ok" or "null".        *)
(***************************************************************************)
UnsetData == [s \in ShaperNames |-> "unset"]

\* The shapers whose face data can be created for the face "F" of the
\* cache specification: graphite2 finds no tables of its own in it.
FaceCan == {"ot", "fallback"}

\* hb_<shaper>_shaper_face_data_ensure (face): lazy, memoized, and always
\* failing on the Null face, whose loader has no owner to store into.
shaper_face_data_ensure(f, shaper) ==
  IF f.inert THEN [ok |-> FALSE, face |-> f]
  ELSE IF f.data[shaper] = "unset"
       THEN LET made == IF shaper \in f.can THEN "ok" ELSE "null"
            IN  [ok |-> made = "ok",
                 face |-> [f EXCEPT !.data[shaper] = made]]
       ELSE [ok |-> f.data[shaper] = "ok", face |-> f]

\* hb_<shaper>_shaper_font_data_ensure (font)
shaper_font_data_ensure(fnt, shaper) ==
  IF fnt.data[shaper] = "unset"
  THEN LET made == IF shaper \in fnt.can THEN "ok" ELSE "null"
       IN  [ok |-> made = "ok",
            font |-> [fnt EXCEPT !.data[shaper] = made]]
  ELSE [ok |-> fnt.data[shaper] = "ok", font |-> fnt]

(***************************************************************************)
(* hb_shape_plan_key_choose_shaper                                         *)
(***************************************************************************)
\* Faulty variant of HB_SHAPER_PLAN: the name recorded is not the name of the shaper
\* whose function is recorded.
HB_SHAPER_PLAN_otherName(key, f, shaper) ==
  LET e == shaper_face_data_ensure(f, shaper)
  IN  IF e.ok
      THEN [returned |-> TRUE,
            key |-> [key EXCEPT !.shaper_func = ShapeFunc(shaper),
                                !.shaper_name = Shapers[1]],
            face |-> e.face]
      ELSE [returned |-> FALSE, key |-> key, face |-> e.face]

\* HB_SHAPER_PLAN (shaper): on a successful ensure, record function and
\* name and return from choose_shaper.
HB_SHAPER_PLAN(key, f, shaper) ==
  LET e == shaper_face_data_ensure(f, shaper)
  IN  IF e.ok
      THEN [returned |-> TRUE,
            key |-> [key EXCEPT !.shaper_func = ShapeFunc(shaper),
                                !.shaper_name = shaper],
            face |-> e.face]
      ELSE [returned |-> FALSE, key |-> key, face |-> e.face]

\* The else-if chain of the list loop: the first compiled-in shaper whose
\* name strcmp-equals the listed name, if any.
RECURSIVE ListChain(_, _, _, _)
ListChain(key, f, name, j) ==
  IF j > Len(Shapers) THEN [returned |-> FALSE, key |-> key, face |-> f]
  ELSE IF name = Shapers[j] THEN HB_SHAPER_PLAN(key, f, Shapers[j])
  ELSE ListChain(key, f, name, j + 1)

\* Faulty variant of ListLoop: a successful shaper does not end the loop, so the
\* last listed shaper that initializes wins.
RECURSIVE ListLoop_lastWins(_, _, _)
ListLoop_lastWins(key, f, list) ==
  IF list = <<>> THEN [returned |-> FALSE, key |-> key, face |-> f]
  ELSE LET r == ListChain(key, f, Head(list), 1)
           rest == ListLoop_lastWins(r.key, r.face, Tail(list))
       IN  IF rest.returned THEN rest
           ELSE [returned |-> r.returned, key |-> r.key, face |-> rest.face]

\* for (; *shaper_list; shaper_list++)
RECURSIVE ListLoop(_, _, _)
ListLoop(key, f, list) ==
  IF list = <<>> THEN [returned |-> FALSE, key |-> key, face |-> f]
  ELSE LET r == ListChain(key, f, Head(list), 1)
       IN  IF r.returned THEN r ELSE ListLoop(r.key, r.face, Tail(list))

\* The else-if chain of the table loop: the compiled-in shaper whose shape
\* function is shapers[i].func.
RECURSIVE TableChain(_, _, _, _)
TableChain(key, f, i, j) ==
  IF j > Len(Shapers) THEN [returned |-> FALSE, key |-> key, face |-> f]
  ELSE IF ShapersTableFunc(i) = ShapeFunc(Shapers[j])
       THEN HB_SHAPER_PLAN(key, f, Shapers[j])
  ELSE TableChain(key, f, i, j + 1)

\* for (unsigned int i = 0; i < HB_SHAPERS_COUNT; i++)
RECURSIVE TableLoop(_, _, _)
TableLoop(key, f, i) ==
  IF i > HB_SHAPERS_COUNT THEN [returned |-> FALSE, key |-> key, face |-> f]
  ELSE LET r == TableChain(key, f, i, 1)
       IN  IF r.returned THEN r ELSE TableLoop(r.key, r.face, i + 1)

\* shaper_list is [null |-> BOOLEAN, names |-> sequence of names].
hb_shape_plan_key_choose_shaper(key, f, shaper_list) ==
  LET l == IF ~shaper_list.null
           THEN ListLoop(key, f, shaper_list.names)
           ELSE [returned |-> FALSE, key |-> key, face |-> f]
  IN  IF l.returned THEN l ELSE TableLoop(l.key, l.face, 1)

(***************************************************************************)
(* Keys, plans, requests                                                   *)
(***************************************************************************)
HB_FEATURE_GLOBAL_START == 0
\* ((unsigned int) -1), written as the signed value of the same bits.
HB_FEATURE_GLOBAL_END == -1

GlobalFeature ==
  [tag |-> "liga", value |-> 1,
   start |-> HB_FEATURE_GLOBAL_START, end |-> HB_FEATURE_GLOBAL_END]
RangedFeature == [tag |-> "liga", value |-> 1, start |-> 2, end |-> 5]

\* Segment properties are opaque values; "P0" is the all-zero value of the
\* Null plan, whose direction is HB_DIRECTION_INVALID.
NullProps == "P0"

\* The key of Null(hb_shape_plan_t): all zero.
NullKey ==
  [props |-> NullProps,
   user_features |-> <<>>, features_ptr |-> 0,
   coords |-> <<>>, coords_ptr |-> 0,
   shaper_func |-> NullFunc, shaper_name |-> NullName]

NoList == [null |-> TRUE, names |-> <<>>]
List(names) == [null |-> FALSE, names |-> names]

\* The requests the threads issue.  "F" is an ordinary face, "EMPTY" the
\* Null face hb_face_get_empty returns.
Req(f, props, feats, coords, list) ==
  [face |-> f, props |-> props, user_features |-> feats,
   coords |-> coords, shaper_list |-> list]

ReqPlain    == Req("F", "P1", <<>>, <<>>, NoList)
ReqListed   == Req("F", "P1", <<>>, <<>>, List(<<"bogus", "ot">>))
ReqGlobal   == Req("F", "P1", <<GlobalFeature>>, <<>>, NoList)
ReqRanged   == Req("F", "P1", <<RangedFeature>>, <<>>, NoList)
ReqCoords   == Req("F", "P1", <<>>, <<7>>, NoList)
ReqNullFace == Req("EMPTY", "P1", <<>>, <<>>, NoList)

Requests ==
  {ReqPlain, ReqListed, ReqGlobal, ReqRanged, ReqCoords, ReqNullFace}

\* Heaps large enough that no call ever finds them full: an allocation
\* fails only when a failure is injected.
MaxRetries == 7        \* failed exchanges counted in the contention specification
MaxRefCalls == 6
HeapCalls == IF MaxCalls > MaxRefCalls THEN MaxCalls ELSE MaxRefCalls
PlanIds  == 1..(HeapCalls + MaxFails)
NodeIds  == 1..HeapCalls
ArrayIds == 1..(2 * HeapCalls)

EmptyPlan == 0   \* hb_shape_plan_get_empty ()

NullPlanObject ==
  [state |-> "static", ref_count |-> 0, face_unsafe |-> "nullptr",
   key |-> NullKey, ot |-> "none", n_ref |-> 0, n_destroy |-> 0]
FreePlanSlot ==
  [state |-> "free", ref_count |-> 0, face_unsafe |-> "nullptr",
   key |-> NullKey, ot |-> "none", n_ref |-> 0, n_destroy |-> 0]
FreeNodeSlot == [state |-> "free", shape_plan |-> 0, next |-> 0]

(***************************************************************************)
(* Key comparison and cacheability                                         *)
(***************************************************************************)
hb_segment_properties_equal(a, b) == a = b

\* Length first, then memcmp over the elements.
hb_shape_plan_key_user_features_equal(key1, key2) ==
  IF Len(key1.user_features) # Len(key2.user_features) THEN FALSE
  ELSE \A i \in 1..Len(key1.user_features) :
         key1.user_features[i] = key2.user_features[i]

hb_shape_plan_key_coords_equal(key2, key1) ==
  IF Len(key1.coords) # Len(key2.coords) THEN FALSE
  ELSE \A i \in 1..Len(key1.coords) : key1.coords[i] = key2.coords[i]

\* Faulty variant of hb_shape_plan_key_equal: the feature arrays are compared by
\* address, not by content.
hb_shape_plan_key_equal_byPointer(key1, key2) ==
  /\ hb_segment_properties_equal(key1.props, key2.props)
  /\ key1.features_ptr = key2.features_ptr
  /\ hb_shape_plan_key_coords_equal(key1, key2)
  /\ key1.shaper_func = key2.shaper_func

hb_shape_plan_key_equal(key1, key2) ==
  /\ hb_segment_properties_equal(key1.props, key2.props)
  /\ hb_shape_plan_key_user_features_equal(key1, key2)
  /\ hb_shape_plan_key_coords_equal(key1, key2)
  /\ key1.shaper_func = key2.shaper_func

hb_shape_plan_key_has_non_global_user_features(key) ==
  \E i \in 1..Len(key.user_features) :
     \/ key.user_features[i].start # HB_FEATURE_GLOBAL_START
     \/ key.user_features[i].end # HB_FEATURE_GLOBAL_END

hb_shape_plan_key_has_coords(key) == Len(key.coords) # 0

\* Faulty variant of hb_shape_plan_key_dont_cache: coordinates are not looked at.
hb_shape_plan_key_dont_cache_noCoords(key) ==
  hb_shape_plan_key_has_non_global_user_features(key)

hb_shape_plan_key_dont_cache(key) ==
  \/ hb_shape_plan_key_has_non_global_user_features(key)
  \/ hb_shape_plan_key_has_coords(key)

(***************************************************************************)
(* Heaps                                                                   *)
(***************************************************************************)
Min(S) == CHOOSE x \in S : \A y \in S : x <= y

FreePlans  == {p \in PlanIds : plans[p].state = "free"}
FreeNodes  == {n \in NodeIds : nodes[n].state = "free"}
FreeArrays == {a \in ArrayIds : arrays[a] = "free"}

\* The nodes reachable from a head pointer, in list order.
RECURSIVE ListFrom(_)
ListFrom(n) == IF n = 0 THEN <<>> ELSE <<n>> \o ListFrom(nodes[n].next)

Reachable(f) == ListFrom(faces[f].shape_plans)
ReachableSet(f) == {Reachable(f)[i] : i \in 1..Len(Reachable(f))}

\* An allocation may fail while injected failures remain.
MayFail == budget.fails > 0
SpendFail == [budget EXCEPT !.fails = @ - 1]

Fault(name) == [hist EXCEPT !.faults = @ \cup {name}]

\* hist.retries counts the exchanges of line 500 that failed, as far as
\* budget.retries: only the contention specification counts them.
CountRetry(h) ==
  IF h.retries < budget.retries THEN [h EXCEPT !.retries = @ + 1] ELSE h

(***************************************************************************)
(* Initial state                                                           *)
(***************************************************************************)
NoReq == Req("nullptr", NullProps, <<>>, <<>>, NoList)

ThreadIdle ==
  [pc |-> "idle", req |-> NoReq, key |-> NullKey,
   cached_plan_nodes |-> 0, dont_cache |-> FALSE,
   shape_plan |-> 0, node |-> 0,
   allocs |-> {}, dplan |-> 0, after |-> "idle"]

InitCache(calls, fails) ==
  /\ faces = [f \in {"F", "EMPTY"} |->
                [shape_plans |-> 0, immutable |-> f = "EMPTY",
                 inert |-> f = "EMPTY",
                 can |-> IF f = "EMPTY" THEN {} ELSE FaceCan,
                 data |-> UnsetData]]
  /\ plans = [p \in {EmptyPlan} \cup PlanIds |->
               IF p = EmptyPlan THEN NullPlanObject ELSE FreePlanSlot]
  /\ nodes = [n \in NodeIds |-> FreeNodeSlot]
  /\ arrays = [a \in ArrayIds |-> "free"]
  /\ thr = [t \in Threads |-> ThreadIdle]
  /\ held = [p \in {EmptyPlan} \cup PlanIds |-> 0]
  /\ hist = [faults |-> {}, returned |-> {}, retries |-> 0]
  /\ budget = [calls |-> calls, fails |-> fails, retries |-> 0]

(***************************************************************************)
(* Reference counting (hb_object_reference / hb_object_destroy are used    *)
(* through hb_shape_plan_reference / hb_shape_plan_destroy).               *)
(***************************************************************************)
hb_object_is_inert(p) == p = EmptyPlan

\* hb_object_reference: no-op on the inert object, else one increment.
hb_object_reference(P, p) ==
  IF hb_object_is_inert(p) \/ P[p].state # "live" THEN P
  ELSE [P EXCEPT ![p].ref_count = @ + 1]

\* hb_object_destroy: FALSE on the inert object; else one decrement, TRUE
\* exactly when the count reaches zero.
hb_object_destroy(P, p) ==
  IF hb_object_is_inert(p) \/ P[p].state # "live"
  THEN [last |-> FALSE, plans |-> P]
  ELSE [last |-> P[p].ref_count = 1,
        plans |-> [P EXCEPT ![p].ref_count = @ - 1]]

\* n_ref and n_destroy count the calls of hb_shape_plan_reference and
\* hb_shape_plan_destroy made on a plan since it was created.
CountCall(P, p, field) ==
  IF p = EmptyPlan \/ P[p].state # "live" THEN P
  ELSE IF field = "n_ref" THEN [P EXCEPT ![p].n_ref = @ + 1]
  ELSE [P EXCEPT ![p].n_destroy = @ + 1]

\* Faulty variant of hb_shape_plan_reference: the call leaves the count alone.
hb_shape_plan_reference_noIncrement(P, p) == CountCall(P, p, "n_ref")

\* Faulty variant of hb_shape_plan_reference: the count is incremented
\* without asking whether the object is inert.
hb_shape_plan_reference_bumpsInert(P, p) ==
  [CountCall(P, p, "n_ref") EXCEPT ![p].ref_count = @ + 1]

\* hb_shape_plan_reference (lines 220-224): the plans after the call.
hb_shape_plan_reference(P, p) ==
  hb_object_reference(CountCall(P, p, "n_ref"), p)

\* Touching a plan whose storage was already freed.
UseAfterFree(p) == p # EmptyPlan /\ plans[p].state # "live"

(***************************************************************************)
(* Returning from an API call: the caller now owns one reference to p.     *)
(***************************************************************************)
Return(t, p) ==
  /\ thr' = [thr EXCEPT ![t] = ThreadIdle]
  /\ held' = [held EXCEPT ![p] = @ + 1]

\* The record of what create_cached2 calls returned: the request, its
\* lookup key, the plan, and the return statement taken.
Log(h, me, p, path) ==
  [h EXCEPT !.returned =
     @ \cup {[req |-> me.req, key |-> me.key, plan |-> p,
               path |-> path]}]

(***************************************************************************)
(* Clients calling hb_shape_plan_reference and hb_shape_plan_destroy       *)
(***************************************************************************)
\* The caller passes a plan to which some caller owns a reference; the
\* callers then own one more.
client_reference(t, p) ==
  /\ thr[t].pc = "idle"
  /\ budget.calls > 0
  /\ held[p] > 0
  /\ plans' = hb_shape_plan_reference(plans, p)
  /\ hist' = IF UseAfterFree(p) THEN Fault("use_after_free") ELSE hist
  /\ thr' = [thr EXCEPT ![t] = ThreadIdle]
  /\ held' = [held EXCEPT ![p] = @ + 1]
  /\ budget' = [budget EXCEPT !.calls = @ - 1]
  /\ UNCHANGED <<faces, nodes, arrays>>
  /\ UNCHANGED dispVars

\* A caller gives up one reference the callers own.
client_destroy(t, p) ==
  /\ thr[t].pc = "idle"
  /\ budget.calls > 0
  /\ held[p] > 0
  /\ held' = [held EXCEPT ![p] = @ - 1]
  /\ thr' = [thr EXCEPT ![t] =
               [ThreadIdle EXCEPT !.pc = "d_dec", !.dplan = p,
                                  !.after = "idle"]]
  /\ budget' = [budget EXCEPT !.calls = @ - 1]
  /\ UNCHANGED <<faces, plans, nodes, arrays, hist>>
  /\ UNCHANGED dispVars

(***************************************************************************)
(* hb_shape_plan_destroy (lines 234-245)                                   *)
(***************************************************************************)
\* Where a finished destroy continues: back in the caller.
AfterDestroy(t) ==
  IF thr[t].after = "idle"
  THEN ThreadIdle
  ELSE [thr[t] EXCEPT !.pc = thr[t].after, !.dplan = 0, !.after = "idle"]

\* Faulty variant of hb_shape_plan_destroy: the result of hb_object_destroy is
\* ignored and every call goes on to release.
hb_shape_plan_destroy_always(t) ==
  /\ thr[t].pc = "d_dec"
  /\ LET p == thr[t].dplan
         d == hb_object_destroy(CountCall(plans, p, "n_destroy"), p)
     IN  /\ plans' = d.plans
         /\ hist' = IF UseAfterFree(p) THEN Fault("use_after_free") ELSE hist
         /\ thr' = [thr EXCEPT ![t] = [@ EXCEPT !.pc = "d_release"]]
  /\ UNCHANGED <<faces, nodes, arrays, held, budget>>
  /\ UNCHANGED dispVars

\* Line 237: if (!hb_object_destroy (shape_plan)) return;
hb_shape_plan_destroy(t) ==
  /\ thr[t].pc = "d_dec"
  /\ LET p == thr[t].dplan
         d == hb_object_destroy(CountCall(plans, p, "n_destroy"), p)
     IN  /\ plans' = d.plans
         /\ hist' = IF UseAfterFree(p) THEN Fault("use_after_free") ELSE hist
         /\ thr' = [thr EXCEPT ![t] =
                      IF d.last THEN [@ EXCEPT !.pc = "d_release"]
                      ELSE AfterDestroy(t)]
  /\ UNCHANGED <<faces, nodes, arrays, held, budget>>
  /\ UNCHANGED dispVars

\* free () of an array pointer; free (nullptr) does nothing.
FreeArray(arr, a) == IF a = 0 THEN arr ELSE [arr EXCEPT ![a] = "free"]
DoubleFree(a) == a # 0 /\ arrays[a] # "live"

\* Lines 239-244: ot.fini (), free the key's arrays, free the plan.
hb_shape_plan_destroy_release(t) ==
  /\ thr[t].pc = "d_release"
  /\ LET p == thr[t].dplan
         k == plans[p].key
     IN  /\ arrays' = FreeArray(FreeArray(arrays, k.features_ptr), k.coords_ptr)
         /\ plans' = [plans EXCEPT ![p] = FreePlanSlot]
         /\ hist' =
              LET f1 == IF plans[p].state # "live" \/ DoubleFree(k.features_ptr)
                           \/ DoubleFree(k.coords_ptr)
                        THEN {"double_free"} ELSE {}
                  f2 == IF plans[p].ot # "inited" THEN {"double_fini"} ELSE {}
                  f3 == IF plans[p].ref_count > 0
                        THEN {"released_while_referenced"} ELSE {}
              IN  [hist EXCEPT !.faults = @ \cup f1 \cup f2 \cup f3]
  /\ thr' = [thr EXCEPT ![t] = AfterDestroy(t)]
  /\ UNCHANGED <<faces, nodes, held, budget>>
  /\ UNCHANGED dispVars

(***************************************************************************)
(* hb_shape_plan_create2 (lines 124-193), as called from line 485 of       *)
(* hb_shape_plan_create_cached2.  The function works on memory no other    *)
(* thread can reach, so it is one action; outcome names the statement at   *)
(* which it fails, if any.  thr[t].allocs is the set of allocations the    *)
(* call made and did not free.                                             *)
(***************************************************************************)
Me(t) == thr[t]
Step(t, new) == thr' = [thr EXCEPT ![t] = new]

Outcomes == {"ok", "no_features", "no_coords", "no_object", "no_init0"}

\* hb_face_make_immutable: one-way; nothing to do on the Null face.
hb_face_make_immutable(f) ==
  IF f.inert THEN f ELSE [f EXCEPT !.immutable = TRUE]

\* Lines 161-177: fill the plan's key and choose the shaper.
create2_key(req, features, coords, f) ==
  hb_shape_plan_key_choose_shaper(
    [props |-> req.props,
     user_features |-> req.user_features, features_ptr |-> features,
     coords |-> req.coords, coords_ptr |-> coords,
     shaper_func |-> NullFunc, shaper_name |-> NullName],
    f, req.shaper_list)

\* What the bail label frees (lines 190-191): coords and features.
create2_bail_frees(features, coords) == {features, coords} \ {0}

\* hb_shape_plan_create (lines 111-122): create2 without coordinates,
\* called by a client.
hb_shape_plan_create(t, req) ==
  /\ thr[t].pc = "idle"
  /\ budget.calls > 0
  /\ budget' = [budget EXCEPT !.calls = @ - 1]
  /\ Step(t, [ThreadIdle EXCEPT !.pc = "c2",
                                !.req = [req EXCEPT !.coords = <<>>]])
  /\ UNCHANGED <<faces, plans, nodes, arrays, held, hist>>
  /\ UNCHANGED dispVars

hb_shape_plan_create2(t, outcome) ==
  /\ thr[t].pc = "c2"
  /\ outcome # "ok" => MayFail
  /\ LET req == Me(t).req
         \* line 148: calloc of the feature copy, when there are features
         gotF == /\ Len(req.user_features) > 0
                 /\ outcome # "no_features"
         features == IF gotF THEN Min(FreeArrays) ELSE 0
         \* line 150: calloc of the coordinate copy, when there are coords
         gotC == /\ Len(req.coords) > 0
                 /\ outcome \notin {"no_features", "no_coords"}
         coords == IF gotC THEN Min(FreeArrays \ {features}) ELSE 0
         \* line 153: hb_object_create: zeroed, ref_count 1
         gotP == outcome \in {"ok", "no_init0"}
         p == IF gotP THEN Min(FreePlans) ELSE EmptyPlan
         \* lines 156-177
         fid == IF req.face = "nullptr" THEN "EMPTY" ELSE req.face
         r == create2_key(req, features, coords,
                          hb_face_make_immutable(faces[fid]))
         allocated == [a \in ArrayIds |->
                         IF a \in {features, coords} THEN "live"
                         ELSE arrays[a]]
         freed == IF outcome = "ok" THEN {}
                  ELSE create2_bail_frees(features, coords)
         made == (IF gotF THEN {"features"} ELSE {})
                 \cup (IF gotC THEN {"coords"} ELSE {})
                 \cup (IF gotP THEN {"plan"} ELSE {})
         unmade == (IF features \in freed THEN {"features"} ELSE {})
                   \cup (IF coords \in freed THEN {"coords"} ELSE {})
     IN  \* a failure the request cannot have is not an outcome
         /\ outcome = "no_features" => Len(req.user_features) > 0
         /\ outcome = "no_coords" => Len(req.coords) > 0
         /\ arrays' = [a \in ArrayIds |->
                         IF a \in freed THEN "free" ELSE allocated[a]]
         /\ plans' = IF gotP
                     THEN [plans EXCEPT ![p] =
                             [state |-> "live", ref_count |-> 1,
                              face_unsafe |-> fid, key |-> r.key,
                              \* lines 179-185: ot.init0
                              ot |-> IF outcome = "ok" THEN "inited"
                                     ELSE "failed",
                              n_ref |-> 0, n_destroy |-> 0]]
                     ELSE plans
         /\ faces' = IF gotP THEN [faces EXCEPT ![fid] = r.face] ELSE faces
         \* line 187 returns shape_plan, line 192 the empty plan: to the
         \* client, or to line 485 of create_cached2
         /\ LET result == IF outcome = "ok" THEN p ELSE EmptyPlan
            IN  IF Me(t).after = "idle"
                THEN /\ Return(t, result)
                     /\ UNCHANGED hist
                ELSE /\ Step(t, [Me(t) EXCEPT !.pc = Me(t).after,
                                              !.after = "idle",
                                              !.shape_plan = result,
                                              !.allocs = made \ unmade])
                     /\ UNCHANGED <<held, hist>>
  /\ budget' = IF outcome = "ok" THEN budget ELSE SpendFail
  /\ UNCHANGED nodes
  /\ UNCHANGED dispVars

(***************************************************************************)
(* hb_shape_plan_create_cached2 (lines 441-509)                            *)
(***************************************************************************)
\* The first node of the list whose plan's key equals key, or 0.
RECURSIVE FirstMatch(_, _)
FirstMatch(n, key) ==
  IF n = 0 THEN 0
  ELSE IF hb_shape_plan_key_equal(plans[nodes[n].shape_plan].key, key) THEN n
  ELSE FirstMatch(nodes[n].next, key)

\* The plans the scan dereferences: up to and including the match.
RECURSIVE Scanned(_, _)
Scanned(n, key) ==
  IF n = 0 THEN {}
  ELSE IF hb_shape_plan_key_equal(plans[nodes[n].shape_plan].key, key)
       THEN {nodes[n].shape_plan}
  ELSE {nodes[n].shape_plan} \cup Scanned(nodes[n].next, key)

\* Faulty variant of Lookup: a hit returns the plan found without taking a
\* reference to it.
Lookup_noReference(t, me) ==
  LET cached_plan_nodes == faces[me.req.face].shape_plans
      dont_cache == \/ hb_shape_plan_key_dont_cache(me.key)
                    \/ faces[me.req.face].inert
      hit == IF dont_cache THEN 0 ELSE FirstMatch(cached_plan_nodes, me.key)
  IN  IF hit # 0
      THEN /\ plans' = plans
           /\ Return(t, nodes[hit].shape_plan)
           /\ hist' = Log(hist, me, nodes[hit].shape_plan, "hit")
      ELSE /\ Step(t, [me EXCEPT !.pc = "c2", !.after = "cc_created",
                                 !.cached_plan_nodes = cached_plan_nodes,
                                 !.dont_cache = dont_cache])
           /\ UNCHANGED <<plans, held, hist>>

\* Lines 471-483, for the thread t whose locals are me: read the head once,
\* decide cacheability, scan the list read; a hit returns a new reference to
\* the plan, a miss goes on to create2 at line 485.  Published nodes and the
\* keys of their plans never change, so the scan sees what it would see at
\* the moment the head is read.
Lookup(t, me) ==
  LET cached_plan_nodes == faces[me.req.face].shape_plans
      dont_cache == \/ hb_shape_plan_key_dont_cache(me.key)
                    \/ faces[me.req.face].inert
      hit == IF dont_cache THEN 0 ELSE FirstMatch(cached_plan_nodes, me.key)
      uaf == /\ ~dont_cache
             /\ \E p \in Scanned(cached_plan_nodes, me.key) : UseAfterFree(p)
      seen == IF uaf THEN Fault("use_after_free") ELSE hist
  IN  IF hit # 0
      THEN /\ plans' = hb_shape_plan_reference(plans, nodes[hit].shape_plan)
           /\ Return(t, nodes[hit].shape_plan)
           /\ hist' = Log(seen, me, nodes[hit].shape_plan, "hit")
      ELSE /\ Step(t, [me EXCEPT !.pc = "c2", !.after = "cc_created",
                                 !.cached_plan_nodes = cached_plan_nodes,
                                 !.dont_cache = dont_cache])
           /\ hist' = seen
           /\ UNCHANGED <<plans, held>>

\* Lines 456-483: a call.  The lookup key points at the caller's arrays;
\* choosing its shaper creates face data, which never changes what a later
\* choice finds, so the key and the first lookup are one step.
hb_shape_plan_create_cached2(t, req) ==
  /\ thr[t].pc = "idle"
  /\ budget.calls > 0
  /\ budget' = [budget EXCEPT !.calls = @ - 1]
  /\ LET r == hb_shape_plan_key_choose_shaper(
                [props |-> req.props,
                 user_features |-> req.user_features, features_ptr |-> 0,
                 coords |-> req.coords, coords_ptr |-> 0,
                 shaper_func |-> NullFunc, shaper_name |-> NullName],
                faces[req.face], req.shaper_list)
     IN  /\ faces' = [faces EXCEPT ![req.face] = r.face]
         /\ Lookup(t, [ThreadIdle EXCEPT !.req = req, !.key = r.key])
  /\ UNCHANGED <<nodes, arrays>>
  /\ UNCHANGED dispVars

\* Faulty variant of hb_shape_plan_create_cached2_retry: the label sits
\* after line 472 and the pass goes on with the head value it has.
hb_shape_plan_create_cached2_retry_staleHead(t) ==
  /\ thr[t].pc = "cc_retry"
  /\ Step(t, [Me(t) EXCEPT !.pc = "c2", !.after = "cc_created"])
  /\ UNCHANGED <<faces, plans, nodes, arrays, held, hist, budget>>
  /\ UNCHANGED dispVars

\* Lines 471-483 again, after goto retry.
hb_shape_plan_create_cached2_retry(t) ==
  /\ thr[t].pc = "cc_retry"
  /\ Lookup(t, Me(t))
  /\ UNCHANGED <<faces, nodes, arrays, budget>>
  /\ UNCHANGED dispVars

\* Faulty variant of hb_shape_plan_create_cached2_cmpexch: line 498 is
\* left out and node->next stays nullptr as calloc made it.
hb_shape_plan_create_cached2_cmpexch_noNext(t) ==
  /\ thr[t].pc = "cc_created"
  /\ IF Me(t).dont_cache
     THEN /\ Return(t, Me(t).shape_plan)
          /\ hist' = Log(hist, Me(t), Me(t).shape_plan, "dont_cache")
          /\ UNCHANGED <<faces, nodes, budget>>
     ELSE \/ /\ MayFail
             /\ budget' = SpendFail
             /\ Return(t, Me(t).shape_plan)
             /\ hist' = Log(hist, Me(t), Me(t).shape_plan, "node_failed")
             /\ UNCHANGED <<faces, nodes>>
          \/ LET n == Min(FreeNodes)
                 f == Me(t).req.face
             IN  /\ nodes' = [nodes EXCEPT ![n] =
                                [state |-> "live",
                                 shape_plan |-> Me(t).shape_plan,
                                 next |-> 0]]
                 /\ IF faces[f].shape_plans = Me(t).cached_plan_nodes
                    THEN /\ faces' = [faces EXCEPT ![f].shape_plans = n]
                         /\ Step(t, [Me(t) EXCEPT !.pc = "cc_publish",
                                                  !.node = n])
                    ELSE /\ Step(t, [Me(t) EXCEPT !.pc = "d_dec", !.node = n,
                                                  !.dplan = Me(t).shape_plan,
                                                  !.after = "cc_free_node"])
                         /\ UNCHANGED faces
                 /\ UNCHANGED <<held, hist, budget>>
  /\ UNCHANGED <<plans, arrays>>
  /\ UNCHANGED dispVars

\* Faulty variant of hb_shape_plan_create_cached2_cmpexch: a failed node
\* allocation is answered with goto retry.
hb_shape_plan_create_cached2_cmpexch_retryNoNode(t) ==
  /\ thr[t].pc = "cc_created"
  /\ IF Me(t).dont_cache
     THEN /\ Return(t, Me(t).shape_plan)
          /\ hist' = Log(hist, Me(t), Me(t).shape_plan, "dont_cache")
          /\ UNCHANGED <<faces, nodes, budget>>
     ELSE \/ /\ MayFail
             /\ budget' = SpendFail
             /\ Step(t, [Me(t) EXCEPT !.pc = "cc_retry"])
             /\ UNCHANGED <<faces, nodes, held, hist>>
          \/ LET n == Min(FreeNodes)
                 f == Me(t).req.face
             IN  /\ nodes' = [nodes EXCEPT ![n] =
                                [state |-> "live",
                                 shape_plan |-> Me(t).shape_plan,
                                 next |-> Me(t).cached_plan_nodes]]
                 /\ IF faces[f].shape_plans = Me(t).cached_plan_nodes
                    THEN /\ faces' = [faces EXCEPT ![f].shape_plans = n]
                         /\ Step(t, [Me(t) EXCEPT !.pc = "cc_publish",
                                                  !.node = n])
                    ELSE /\ Step(t, [Me(t) EXCEPT !.pc = "d_dec", !.node = n,
                                                  !.dplan = Me(t).shape_plan,
                                                  !.after = "cc_free_node"])
                         /\ UNCHANGED faces
                 /\ UNCHANGED <<held, hist, budget>>
  /\ UNCHANGED <<plans, arrays>>
  /\ UNCHANGED dispVars

\* Faulty variant of hb_shape_plan_create_cached2_cmpexch: a plain store in
\* place of the compare-and-exchange, whatever the head holds by then.
hb_shape_plan_create_cached2_cmpexch_blindStore(t) ==
  /\ thr[t].pc = "cc_created"
  /\ IF Me(t).dont_cache
     THEN /\ Return(t, Me(t).shape_plan)
          /\ hist' = Log(hist, Me(t), Me(t).shape_plan, "dont_cache")
          /\ UNCHANGED <<faces, nodes, budget>>
     ELSE \/ /\ MayFail
             /\ budget' = SpendFail
             /\ Return(t, Me(t).shape_plan)
             /\ hist' = Log(hist, Me(t), Me(t).shape_plan, "node_failed")
             /\ UNCHANGED <<faces, nodes>>
          \/ LET n == Min(FreeNodes)
                 f == Me(t).req.face
             IN  /\ nodes' = [nodes EXCEPT ![n] =
                                [state |-> "live",
                                 shape_plan |-> Me(t).shape_plan,
                                 next |-> Me(t).cached_plan_nodes]]
                 /\ faces' = [faces EXCEPT ![f].shape_plans = n]
                 /\ Step(t, [Me(t) EXCEPT !.pc = "cc_publish", !.node = n])
                 /\ UNCHANGED <<held, hist, budget>>
  /\ UNCHANGED <<plans, arrays>>
  /\ UNCHANGED dispVars

\* Faulty variant of hb_shape_plan_create_cached2_cmpexch: the exchange
\* reports success without storing the node in the head.
hb_shape_plan_create_cached2_cmpexch_noStore(t) ==
  /\ thr[t].pc = "cc_created"
  /\ IF Me(t).dont_cache
     THEN /\ Return(t, Me(t).shape_plan)
          /\ hist' = Log(hist, Me(t), Me(t).shape_plan, "dont_cache")
          /\ UNCHANGED <<nodes, budget>>
     ELSE \/ /\ MayFail
             /\ budget' = SpendFail
             /\ Return(t, Me(t).shape_plan)
             /\ hist' = Log(hist, Me(t), Me(t).shape_plan, "node_failed")
             /\ UNCHANGED nodes
          \/ LET n == Min(FreeNodes)
             IN  /\ nodes' = [nodes EXCEPT ![n] =
                                [state |-> "live",
                                 shape_plan |-> Me(t).shape_plan,
                                 next |-> Me(t).cached_plan_nodes]]
                 /\ Step(t, [Me(t) EXCEPT !.pc = "cc_publish", !.node = n])
                 /\ UNCHANGED <<held, hist, budget>>
  /\ UNCHANGED <<faces, plans, arrays>>
  /\ UNCHANGED dispVars

\* Lines 490-502: return uncached, or wrap the plan in a new node, which is
\* this thread's own until line 500 publishes it:
\* face->shape_plans.cmpexch (cached_plan_nodes, node).  On failure the call
\* enters hb_shape_plan_destroy (shape_plan).
hb_shape_plan_create_cached2_cmpexch(t) ==
  /\ thr[t].pc = "cc_created"
  /\ IF Me(t).dont_cache
     THEN /\ Return(t, Me(t).shape_plan)
          /\ hist' = Log(hist, Me(t), Me(t).shape_plan, "dont_cache")
          /\ UNCHANGED <<faces, nodes, budget>>
     ELSE \/ /\ MayFail
             /\ budget' = SpendFail
             /\ Return(t, Me(t).shape_plan)
             /\ hist' = Log(hist, Me(t), Me(t).shape_plan, "node_failed")
             /\ UNCHANGED <<faces, nodes>>
          \/ LET n == Min(FreeNodes)
                 f == Me(t).req.face
             IN  /\ nodes' = [nodes EXCEPT ![n] =
                                [state |-> "live",
                                 shape_plan |-> Me(t).shape_plan,
                                 next |-> Me(t).cached_plan_nodes]]
                 /\ IF faces[f].shape_plans = Me(t).cached_plan_nodes
                    THEN /\ faces' = [faces EXCEPT ![f].shape_plans = n]
                         /\ Step(t, [Me(t) EXCEPT !.pc = "cc_publish",
                                                  !.node = n])
                         /\ UNCHANGED hist
                    ELSE /\ Step(t, [Me(t) EXCEPT !.pc = "d_dec", !.node = n,
                                                  !.dplan = Me(t).shape_plan,
                                                  !.after = "cc_free_node"])
                         /\ hist' = CountRetry(hist)
                         /\ UNCHANGED faces
                 /\ UNCHANGED <<held, budget>>
  /\ UNCHANGED <<plans, arrays>>
  /\ UNCHANGED dispVars

\* Lines 503-504, after hb_shape_plan_destroy (shape_plan) has run:
\* free (node); goto retry.
hb_shape_plan_create_cached2_free_node(t) ==
  /\ thr[t].pc = "cc_free_node"
  /\ nodes' = [nodes EXCEPT ![Me(t).node] = FreeNodeSlot]
  /\ Step(t, [Me(t) EXCEPT !.pc = "cc_retry", !.node = 0, !.shape_plan = 0,
                           !.cached_plan_nodes = 0, !.allocs = {}])
  /\ UNCHANGED <<faces, plans, arrays, held, hist, budget>>
  /\ UNCHANGED dispVars

\* Faulty variant of hb_shape_plan_create_cached2_publish: line 508 returns
\* shape_plan itself, the caller sharing the cache's reference.
hb_shape_plan_create_cached2_publish_noReference(t) ==
  /\ thr[t].pc = "cc_publish"
  /\ Return(t, Me(t).shape_plan)
  /\ hist' = Log(IF UseAfterFree(Me(t).shape_plan)
                 THEN Fault("use_after_free") ELSE hist,
                 Me(t), Me(t).shape_plan, "published")
  /\ UNCHANGED <<faces, plans, nodes, arrays, budget>>
  /\ UNCHANGED dispVars

\* Line 508: return hb_shape_plan_reference (shape_plan);
hb_shape_plan_create_cached2_publish(t) ==
  /\ thr[t].pc = "cc_publish"
  /\ plans' = hb_shape_plan_reference(plans, Me(t).shape_plan)
  /\ Return(t, Me(t).shape_plan)
  /\ hist' = Log(IF UseAfterFree(Me(t).shape_plan)
                 THEN Fault("use_after_free") ELSE hist,
                 Me(t), Me(t).shape_plan, "published")
  /\ UNCHANGED <<faces, nodes, arrays, budget>>
  /\ UNCHANGED dispVars

(***************************************************************************)
(* The cache specification: threads issuing calls on the two faces.        *)
(***************************************************************************)
AllPlans == {EmptyPlan} \cup PlanIds

\* The threads are interchangeable: the first call of a run is t1's.
FirstCallByT1(t) == t = "t1" \/ budget.calls < MaxCalls

NextCache ==
  \E t \in Threads :
       \/ \E req \in Requests : FirstCallByT1(t)
                                  /\ hb_shape_plan_create_cached2(t, req)
       \/ hb_shape_plan_create_cached2_retry(t)
       \/ hb_shape_plan_create_cached2_cmpexch(t)
       \/ hb_shape_plan_create_cached2_free_node(t)
       \/ hb_shape_plan_create_cached2_publish(t)
       \/ \E outcome \in Outcomes : hb_shape_plan_create2(t, outcome)
       \/ \E p \in AllPlans : client_reference(t, p)
       \/ \E p \in AllPlans : client_destroy(t, p)
       \/ hb_shape_plan_destroy(t)
       \/ hb_shape_plan_destroy_release(t)

(***************************************************************************)
(* hb_shape_plan_execute (lines 304-346) and hb_shape_plan_get_shaper      *)
(***************************************************************************)
\* The result of execute when it stops before any shaper is tried.
Stop(ret, checks, fnt, buffer) ==
  [ret |-> ret, checks |-> checks, font |-> fnt, buffer |-> buffer,
   ensured |-> <<>>, invoked |-> <<>>]

\* _hb_<shaper>_shape: the backend's own work on the buffer; shape_ok is
\* the boolean it returns.
shaper_shape(buffer, shape_ok) ==
  IF shape_ok THEN [buffer EXCEPT !.content_type = "glyphs"] ELSE buffer

\* HB_SHAPER_EXECUTE (shaper): font_data_ensure (font) && _shape (...)
HB_SHAPER_EXECUTE(shaper, checks, fnt, buffer, shape_ok) ==
  LET e == shaper_font_data_ensure(fnt, shaper)
  IN  IF e.ok
      THEN [ret |-> IF shape_ok THEN "true" ELSE "false", checks |-> checks,
            font |-> e.font, buffer |-> shaper_shape(buffer, shape_ok),
            ensured |-> <<shaper>>, invoked |-> <<shaper>>]
      ELSE [ret |-> "false", checks |-> checks, font |-> e.font,
            buffer |-> buffer, ensured |-> <<shaper>>, invoked |-> <<>>]

\* Lines 335-345: the else-if chain over the compiled-in shapers.
RECURSIVE ExecuteChain(_, _, _, _, _, _)
ExecuteChain(plan, checks, fnt, buffer, shape_ok, j) ==
  IF j > Len(Shapers) THEN Stop("false", checks, fnt, buffer)
  ELSE IF plan.key.shaper_func = ShapeFunc(Shapers[j])
       THEN HB_SHAPER_EXECUTE(Shapers[j], checks, fnt, buffer, shape_ok)
  ELSE ExecuteChain(plan, checks, fnt, buffer, shape_ok, j + 1)

\* Faulty variant of hb_shape_plan_execute: the length test comes after the asserts
\* and the inert test.
hb_shape_plan_execute_lateLen(plan, fnt, buffer, shape_ok) ==
  IF buffer.immutable THEN Stop("fault", {"mutable"}, fnt, buffer)
  ELSE IF buffer.content_type # "unicode"
       THEN Stop("fault", {"mutable", "content"}, fnt, buffer)
  ELSE IF plan.inert
       THEN Stop("false", {"mutable", "content", "inert"}, fnt, buffer)
  ELSE IF buffer.len = 0
       THEN Stop("true", {"mutable", "content", "inert"}, fnt, buffer)
  ELSE IF plan.face_unsafe # fnt.face
       THEN Stop("fault", {"mutable", "content", "inert", "face"}, fnt, buffer)
  ELSE IF ~hb_segment_properties_equal(plan.key.props, buffer.props)
       THEN Stop("fault", {"mutable", "content", "inert", "face", "props"},
                 fnt, buffer)
  ELSE ExecuteChain(plan, {"mutable", "content", "inert", "face", "props"},
                    fnt, buffer, shape_ok, 1)

\* Faulty variant of hb_shape_plan_execute: no inert test.
hb_shape_plan_execute_noInert(plan, fnt, buffer, shape_ok) ==
  IF buffer.len = 0 THEN Stop("true", {}, fnt, buffer)
  ELSE IF buffer.immutable THEN Stop("fault", {"mutable"}, fnt, buffer)
  ELSE IF buffer.content_type # "unicode"
       THEN Stop("fault", {"mutable", "content"}, fnt, buffer)
  ELSE IF plan.face_unsafe # fnt.face
       THEN Stop("fault", {"mutable", "content", "face"}, fnt, buffer)
  ELSE IF ~hb_segment_properties_equal(plan.key.props, buffer.props)
       THEN Stop("fault", {"mutable", "content", "face", "props"},
                 fnt, buffer)
  ELSE ExecuteChain(plan, {"mutable", "content", "face", "props"},
                    fnt, buffer, shape_ok, 1)

\* ret is "true", "false", or "fault" when an assert fails; checks is the
\* set of conditions evaluated after the length test.
hb_shape_plan_execute(plan, fnt, buffer, shape_ok) ==
  IF buffer.len = 0 THEN Stop("true", {}, fnt, buffer)
  ELSE IF buffer.immutable THEN Stop("fault", {"mutable"}, fnt, buffer)
  ELSE IF buffer.content_type # "unicode"
       THEN Stop("fault", {"mutable", "content"}, fnt, buffer)
  ELSE IF plan.inert
       THEN Stop("false", {"mutable", "content", "inert"}, fnt, buffer)
  ELSE IF plan.face_unsafe # fnt.face
       THEN Stop("fault", {"mutable", "content", "inert", "face"}, fnt, buffer)
  ELSE IF ~hb_segment_properties_equal(plan.key.props, buffer.props)
       THEN Stop("fault", {"mutable", "content", "inert", "face", "props"},
                 fnt, buffer)
  ELSE ExecuteChain(plan, {"mutable", "content", "inert", "face", "props"},
                    fnt, buffer, shape_ok, 1)

hb_shape_plan_get_shaper(plan) == plan.key.shaper_name

(***************************************************************************)
(* The dispatch specification: one face, one font; plans are made by the   *)
(* key-filling block of create2 and handed to execute.                     *)
(***************************************************************************)
Buffers ==
  [len : {0, 2}, immutable : BOOLEAN, content_type : {"unicode", "glyphs"},
   props : {"P1", "P2"}]

ShaperLists ==
  {NoList} \cup {List(names) : names \in SeqsUpTo(ListNames, MaxListLen)}

InertPlan == [inert |-> TRUE, face_unsafe |-> "nullptr", key |-> NullKey]

NoSel == [list |-> NoList, before |-> dFace, key |-> NullKey]
NoOut ==
  [called |-> FALSE, plan |-> InertPlan, font |-> dFont,
   given |-> [len |-> 0, immutable |-> FALSE, content_type |-> "unicode",
              props |-> "P1"],
   ret |-> "none", checks |-> {}, ensured |-> <<>>, invoked |-> <<>>]

DispatchFaces ==
  [shape_plans : {0}, immutable : {FALSE}, inert : {FALSE},
   can : SUBSET ShaperNames, data : {UnsetData}]
DispatchFonts ==
  [face : {"F", "G"}, can : {ShaperNames, {}},
   data : {UnsetData}]

InitDispatch(Faces, Fonts) ==
  /\ dFace \in Faces
  /\ dFont \in Fonts
  /\ dPlan = InertPlan
  /\ dBuf = NoOut.given
  /\ dSel = NoSel
  /\ dOut = NoOut

\* A plan as create2 fills it (lines 156-177) for the face "F".
D_create(props, list) ==
  /\ LET r == create2_key(Req("F", props, <<>>, <<>>, list), 0, 0,
                          hb_face_make_immutable(dFace))
     IN  /\ dFace' = r.face
         /\ dPlan' = [inert |-> FALSE, face_unsafe |-> "F", key |-> r.key]
         /\ dSel' = [list |-> list, before |-> dFace, key |-> r.key]
  /\ UNCHANGED <<dFont, dBuf, dOut>>
  /\ UNCHANGED cacheVars

\* hb_shape_plan_get_empty ()
D_get_empty ==
  /\ dPlan' = InertPlan
  /\ UNCHANGED <<dFace, dFont, dBuf, dSel, dOut>>
  /\ UNCHANGED cacheVars

D_execute(buffer, shape_ok) ==
  /\ LET r == hb_shape_plan_execute(dPlan, dFont, buffer, shape_ok)
     IN  /\ dFont' = r.font
         /\ dBuf' = r.buffer
         /\ dOut' = [called |-> TRUE, plan |-> dPlan, font |-> dFont,
                     given |-> buffer, ret |-> r.ret, checks |-> r.checks,
                     ensured |-> r.ensured, invoked |-> r.invoked]
  /\ UNCHANGED <<dFace, dPlan, dSel>>
  /\ UNCHANGED cacheVars

\* The lists the dispatch specification builds its plans from.
DispatchLists == {NoList, List(<<"fallback">>), List(<<"bogus", "ot">>)}

NextDispatch ==
  \/ \E list \in DispatchLists : D_create("P1", list)
  \/ D_get_empty
  \/ \E buffer \in Buffers, shape_ok \in BOOLEAN : D_execute(buffer, shape_ok)

NextSelect == \E list \in ShaperLists : D_create("P1", list)

(***************************************************************************)
(* Specifications                                                          *)
(***************************************************************************)
\* The cache specification: the dispatch scenario stays idle.
Init ==
  /\ InitCache(MaxCalls, MaxFails)
  /\ InitDispatch({f \in DispatchFaces : f.can = ShaperNames},
                  {f \in DispatchFonts : f.can = ShaperNames /\ f.face = "F"})

Next == NextCache

Spec == Init /\ [][Next]_vars

\* The reference-counting specification: clients create plans directly
\* and share them; the cache is not used.
NextRef ==
  \E t \in Threads :
       \/ hb_shape_plan_create(t, ReqGlobal)
       \/ \E outcome \in Outcomes : hb_shape_plan_create2(t, outcome)
       \/ \E p \in AllPlans : client_reference(t, p)
       \/ \E p \in AllPlans : client_destroy(t, p)
       \/ hb_shape_plan_destroy(t)
       \/ hb_shape_plan_destroy_release(t)

InitRef ==
  /\ InitCache(MaxRefCalls, MaxFails)
  /\ InitDispatch({f \in DispatchFaces : f.can = ShaperNames},
                  {f \in DispatchFonts : f.can = ShaperNames /\ f.face = "F"})

SpecRef == InitRef /\ [][NextRef]_vars

\* The dispatch specification: the threads stay idle.
InitD ==
  /\ InitCache(0, 0)
  /\ InitDispatch({f \in DispatchFaces : f.can \in {ShaperNames, FaceCan, {}}},
                  DispatchFonts)

SpecDispatch == InitD /\ [][NextDispatch]_vars

\* The selection specification: every face capability, every shaper list.
InitS ==
  /\ InitCache(0, 0)
  /\ InitDispatch(DispatchFaces,
                  {f \in DispatchFonts : f.can = ShaperNames /\ f.face = "F"})

SpecSelect == InitS /\ [][NextSelect]_vars

(***************************************************************************)
(* The contention specification: one call by each thread of Contenders on  *)
(* face F, each thread with a request of its own whose key is cacheable    *)
(* and differs from the others'; nothing fails.                            *)
(*                                                                         *)
(* create2, the destroy of a plan that lost the exchange and free (node)   *)
(* work on memory no other thread can reach (hb_face_make_immutable        *)
(* apart, which no step of a call reads), and the reference of line 508    *)
(* writes the count of a plan whose key no other thread here asks for:     *)
(* such a step commutes with every step of another thread, so the          *)
(* specification schedules it before any other step.  The steps that read  *)
(* or write what threads share, which are the head read with its scan and  *)
(* the exchange, interleave in every order.                                *)
(*                                                                         *)
(* Scheduling is fair in the weakest sense: while some step can be taken,  *)
(* one is.                                                                 *)
(***************************************************************************)
Contenders == {"t1", "t2", "t3", "t4"}

ContendReq(t) ==
  CASE t = "t1" -> ReqPlain
    [] t = "t2" -> ReqGlobal
    [] t = "t3" -> Req("F", "P2", <<>>, <<>>, NoList)
    [] t = "t4" -> Req("F", "P2", <<GlobalFeature>>, <<>>, NoList)

InitContend ==
  /\ faces = [f \in {"F"} |->
                [shape_plans |-> 0, immutable |-> FALSE, inert |-> FALSE,
                 can |-> FaceCan, data |-> UnsetData]]
  /\ plans = [p \in {EmptyPlan} \cup PlanIds |->
               IF p = EmptyPlan THEN NullPlanObject ELSE FreePlanSlot]
  /\ nodes = [n \in NodeIds |-> FreeNodeSlot]
  /\ arrays = [a \in ArrayIds |-> "free"]
  /\ thr = [t \in Contenders |-> ThreadIdle]
  /\ held = [p \in {EmptyPlan} \cup PlanIds |-> 0]
  /\ hist = [faults |-> {}, returned |-> {}, retries |-> 0]
  /\ budget = [calls |-> Cardinality(Contenders), fails |-> 0,
               retries |-> MaxRetries]
  /\ InitDispatch({f \in DispatchFaces : f.can = ShaperNames},
                  {f \in DispatchFonts : f.can = ShaperNames /\ f.face = "F"})

\* Thread t is at a step on memory no other thread reads or writes.
OnPrivateMemory(t) ==
  thr[t].pc \in {"c2", "d_dec", "d_release", "cc_free_node", "cc_publish"}

\* Thread t has not returned from its call.
NotReturned(t) == \A e \in hist.returned : e.req # ContendReq(t)

HasCalled(t) == thr[t].pc # "idle" \/ ~NotReturned(t)

\* The threads are interchangeable: they enter their calls in one order.
InOrder(t) ==
  /\ t = "t2" => HasCalled("t1")
  /\ t = "t3" => HasCalled("t2")
  /\ t = "t4" => HasCalled("t3")

Scheduled(t) == OnPrivateMemory(t) \/ \A u \in Contenders : ~OnPrivateMemory(u)

NextContend ==
  \E t \in Contenders :
       \/ /\ Scheduled(t) /\ NotReturned(t) /\ InOrder(t)
          /\ hb_shape_plan_create_cached2(t, ContendReq(t))
       \/ Scheduled(t) /\ hb_shape_plan_create_cached2_retry(t)
       \/ Scheduled(t) /\ hb_shape_plan_create_cached2_cmpexch(t)
       \/ hb_shape_plan_create_cached2_free_node(t)
       \/ hb_shape_plan_create_cached2_publish(t)
       \/ \E outcome \in Outcomes : hb_shape_plan_create2(t, outcome)
       \/ hb_shape_plan_destroy(t)
       \/ hb_shape_plan_destroy_release(t)

SpecContend == InitContend /\ [][NextContend]_vars /\ WF_vars(NextContend)

(***************************************************************************)
(* Properties of the plan cache (Spec)                                     *)
(***************************************************************************)
PlanOfNode(n) == nodes[n].shape_plan
Returned == hist.returned
CachedPlans ==
  {PlanOfNode(n) : n \in UNION {ReachableSet(f) : f \in DOMAIN faces}}

\* C1 as claimed: no two nodes reachable from the head of face F hold plans
\* with equal keys.
C1_AsClaimed ==
  \A m, n \in ReachableSet("F") :
     m # n => ~hb_shape_plan_key_equal(plans[PlanOfNode(m)].key,
                                       plans[PlanOfNode(n)].key)

\* A feature that applies to a sub-range of the buffer.
IsRanged(feature) ==
  \/ feature.start # HB_FEATURE_GLOBAL_START
  \/ feature.end # HB_FEATURE_GLOBAL_END

\* The request is one the cache must not serve.
NonCacheable(req) ==
  \/ \E i \in 1..Len(req.user_features) : IsRanged(req.user_features[i])
  \/ Len(req.coords) > 0
  \/ faces[req.face].inert

\* Two logged calls asked the same cacheable thing of the same face and
\* resolved to the same shaper.
SameCacheableRequest(a, b) ==
  /\ a.req.face = b.req.face
  /\ ~NonCacheable(a.req)
  /\ ~NonCacheable(b.req)
  /\ a.req.props = b.req.props
  /\ a.req.user_features = b.req.user_features
  /\ a.key.shaper_name = b.key.shaper_name

\* C2 as claimed: all calls with the same cacheable request return the same
\* plan.
C2_AsClaimed ==
  \A a, b \in Returned :
     SameCacheableRequest(a, b) => a.plan = b.plan

\* The call returned a created plan out of the cache: by a hit or by
\* publishing it.
ServedByCache(e) ==
  /\ e.path \in {"hit", "published"}
  /\ e.plan # EmptyPlan

\* C2 as amended: all calls with the same cacheable request in which neither
\* plan creation nor node allocation failed return the same plan, whatever
\* their shaper lists; a call in which one of them failed returns the inert
\* plan or an uncached plan of its own.
C2_CacheIdentity ==
  \A a, b \in Returned :
     /\ (/\ SameCacheableRequest(a, b)
         /\ ServedByCache(a)
         /\ ServedByCache(b)) => a.plan = b.plan
     /\ (~NonCacheable(a.req) /\ ~ServedByCache(a)) =>
          \/ a.plan = EmptyPlan
          \/ a.path = "node_failed"

\* C2 witness: a call published a plan and a later call with another shaper
\* list that resolves to the same shaper returned that plan.
C2_Witness ==
  \E a, b \in Returned :
     /\ SameCacheableRequest(a, b)
     /\ a.req.shaper_list # b.req.shaper_list
     /\ a.path = "published"
     /\ b.path = "hit"
     /\ a.plan = b.plan
     /\ a.plan # EmptyPlan

\* The thread taking this step, inside a create_cached2 call on a
\* non-cacheable request.
StepsNonCacheable(t) ==
  LET req == IF thr[t].pc = "idle" THEN thr'[t].req ELSE thr[t].req
  IN  /\ thr'[t] # thr[t]
      /\ req.face # "nullptr"
      /\ NonCacheable(req)

ReturnsNow(t) == thr[t].pc = "cc_created" /\ thr'[t].pc = "idle"

\* The step changes no list head and no node.
CacheUntouched ==
  /\ \A f \in DOMAIN faces : faces'[f].shape_plans = faces[f].shape_plans
  /\ nodes' = nodes

\* C3 as claimed: a call on a non-cacheable request changes no head and no
\* node, and returns a plan that is not in the cache and that no other call
\* has returned to a holder.
C3_AsClaimed ==
  [][\A t \in Threads :
       StepsNonCacheable(t) =>
         /\ CacheUntouched
         /\ ReturnsNow(t) =>
              /\ thr[t].shape_plan \notin CachedPlans
              /\ held[thr[t].shape_plan] = 0]_vars

\* C3 as amended: a call on a non-cacheable request changes no head and no
\* node and never takes a plan out of the cache: it returns a plan it
\* created, with reference count 1, in no cache list and held by nobody
\* else, or, when creation failed, the shared inert plan.
C3_NonCacheable ==
  [][\A t \in Threads :
       StepsNonCacheable(t) =>
         /\ CacheUntouched
         /\ thr'[t].pc # "cc_publish"
         /\ thr'[t].after # "cc_free_node"
         /\ ReturnsNow(t) =>
              LET p == thr[t].shape_plan
              IN  /\ hist'.returned = hist.returned \cup
                        {[req |-> thr[t].req, key |-> thr[t].key, plan |-> p,
                          path |-> "dont_cache"]}
                  /\ \/ p = EmptyPlan
                     \/ /\ plans[p].state = "live"
                        /\ plans[p].ref_count = 1
                        /\ p \notin CachedPlans
                        /\ held[p] = 0]_vars

\* C3 witness: two calls with the same coordinates have returned two
\* different live plans, each with one reference, and the cache of face F
\* is still empty.
C3_Witness ==
  /\ faces["F"].shape_plans = 0
  /\ \E a, b \in Returned :
        /\ a.req = ReqCoords
        /\ b.req = ReqCoords
        /\ a.plan # b.plan
        /\ \A p \in {a.plan, b.plan} :
              /\ p # EmptyPlan
              /\ plans[p].state = "live"
              /\ plans[p].ref_count = 1

\* C6 as claimed: when create2 returns the inert plan, the live allocations
\* are those from before the call.
C6_AsClaimed ==
  [][\A t \in Threads :
       (/\ thr[t].pc = "c2"
        /\ thr'[t].pc = "cc_created"
        /\ thr'[t].shape_plan = EmptyPlan) =>
         /\ arrays' = arrays
         /\ \A p \in PlanIds : plans'[p].state = plans[p].state]_vars

(***************************************************************************)
(* Properties of reference counting (SpecRef)                              *)
(***************************************************************************)
Releasing(t, p) == thr[t].pc = "d_release" /\ thr[t].dplan = p
Destroying(t, p) == thr[t].pc \in {"d_dec", "d_release"} /\ thr[t].dplan = p
Created(p) == plans[p].state = "live" /\ plans[p].ot = "inited"

KeyStorageLive(p) ==
  \A a \in {plans[p].key.features_ptr, plans[p].key.coords_ptr} \ {0} :
     arrays[a] = "live"

\* C4: with threads referencing and destroying one plan in any order, the
\* plan, its key storage and its shaper state are released once, by the
\* destroy whose decrement reached zero, and not while the count is
\* positive.
C4_ReleaseOnce ==
  /\ hist.faults = {}
  /\ \A t \in Threads : \A p \in PlanIds :
        Releasing(t, p) =>
          /\ Created(p)
          /\ plans[p].ref_count = 0
          /\ \A u \in Threads \ {t} : ~Releasing(u, p)
  /\ \A p \in PlanIds :
        Created(p) =>
          /\ KeyStorageLive(p)
          /\ plans[p].ref_count = 0 <=> \E t \in Threads : Releasing(t, p)
  /\ \A t \in Threads : \A p \in PlanIds :
        (held[p] > 0 \/ (thr[t].pc = "d_dec" /\ thr[t].dplan = p)) =>
          Created(p) /\ plans[p].ref_count > 0

\* C4 witness: a plan that was referenced by a second holder has had two
\* destroys; the second one reached zero and is about to release the plan,
\* whose key storage is still allocated.
C4_Witness ==
  \E t \in Threads : \E p \in PlanIds :
     /\ Releasing(t, p)
     /\ plans[p].n_ref = 1
     /\ plans[p].n_destroy = 2
     /\ plans[p].key.features_ptr # 0
     /\ arrays[plans[p].key.features_ptr] = "live"

\* C5 as claimed: a created plan on which reference was called N >= 1 times
\* and destroy N times, all finished, has been released.
C5_AsClaimed ==
  \A p \in PlanIds :
     (/\ Created(p)
      /\ plans[p].n_ref >= 1
      /\ \A t \in Threads : ~Destroying(t, p)) =>
       plans[p].n_destroy < plans[p].n_ref

\* C5 as amended: a plan starts with the reference its creator owns, so
\* after N calls of reference it is released by destroy call N + 1 and is
\* alive after any fewer: the count is 1 + N less the destroys made.
C5_RefSymmetry ==
  \A p \in PlanIds :
     Created(p) =>
       /\ plans[p].ref_count = 1 + plans[p].n_ref - plans[p].n_destroy
       /\ (\E t \in Threads : Releasing(t, p)) <=>
            plans[p].n_destroy = plans[p].n_ref + 1
       /\ plans[p].n_destroy <= plans[p].n_ref + 1

\* C5 witness: after two references, the third destroy is releasing the
\* plan.
C5_Witness ==
  \E t \in Threads : \E p \in PlanIds :
     /\ Releasing(t, p)
     /\ plans[p].n_ref = 2
     /\ plans[p].n_destroy = 3

(***************************************************************************)
(* Properties of execution dispatch (SpecDispatch)                         *)
(***************************************************************************)
\* A key's function and name denote one shaper, or are both unset.
KeyNamesItsFunc(key) ==
  \/ key.shaper_func = NullFunc /\ key.shaper_name = NullName
  \/ \E shaper \in ShaperNames :
       key.shaper_func = ShapeFunc(shaper) /\ key.shaper_name = shaper

\* The last execute had no effect on font or buffer and reached no shaper.
ExecuteWasInert ==
  /\ dOut.invoked = <<>>
  /\ dOut.ensured = <<>>
  /\ dFont = dOut.font
  /\ dBuf = dOut.given

\* C7: for every non-inert plan, the only shaper whose shape operation
\* execute invokes is the one hb_shape_plan_get_shaper names, and the name
\* and the function recorded in a key denote the same shaper.
C7_ShaperConsistency ==
  /\ KeyNamesItsFunc(dPlan.key)
  /\ (dOut.called /\ ~dOut.plan.inert) =>
       /\ Len(dOut.invoked) <= 1
       /\ \A i \in 1..Len(dOut.invoked) :
            dOut.invoked[i] = hb_shape_plan_get_shaper(dOut.plan)

\* C7 witness: execute invoked the ot shaper for a plan named "ot".
C7_Witness ==
  /\ dOut.called
  /\ dOut.invoked = <<"ot">>
  /\ hb_shape_plan_get_shaper(dOut.plan) = "ot"

\* C8: execute on a zero-length buffer returns true at once, for every plan
\* and font: no shaper invoked, no font data initialized, no precondition
\* evaluated.
C8_ZeroLength ==
  (dOut.called /\ dOut.given.len = 0) =>
    /\ dOut.ret = "true"
    /\ dOut.checks = {}
    /\ ExecuteWasInert

\* C8 witness: the inert plan, a font of another face and an immutable
\* buffer of glyphs, of length zero, gave true.
C8_Witness ==
  /\ dOut.called
  /\ dOut.given.len = 0
  /\ dOut.plan.inert
  /\ dOut.given.immutable
  /\ dOut.given.content_type = "glyphs"
  /\ dOut.ret = "true"

\* C9 as claimed: execute on the inert plan returns failure with no side
\* effect and no fault, for every font and buffer.
C9_AsClaimed ==
  (dOut.called /\ dOut.plan.inert) =>
    /\ dOut.ret = "false"
    /\ ExecuteWasInert

\* C9 as amended: execute on the inert plan never has a side effect and
\* never compares faces or segment properties; it returns failure when the
\* buffer is non-empty, mutable and holds Unicode, returns success when the
\* buffer is empty, and otherwise fails the buffer assertion it evaluates
\* before the inert test.
C9_InertPlan ==
  (dOut.called /\ dOut.plan.inert) =>
    /\ ExecuteWasInert
    /\ dOut.checks \cap {"face", "props"} = {}
    /\ dOut.ret =
         IF dOut.given.len = 0 THEN "true"
         ELSE IF dOut.given.immutable \/ dOut.given.content_type # "unicode"
              THEN "fault"
         ELSE "false"

\* C9 witness: the inert plan with a non-empty Unicode buffer and a font of
\* another face than any plan's gave failure.
C9_Witness ==
  /\ dOut.called
  /\ dOut.plan.inert
  /\ dOut.given.len > 0
  /\ dOut.font.face = "G"
  /\ dOut.ret = "false"

(***************************************************************************)
(* Properties of shaper selection (SpecSelect)                             *)
(***************************************************************************)
\* Whether an ensure of the shaper's face data succeeds on face f.
InitSucceeds(f, shaper) ==
  \/ f.data[shaper] = "ok"
  \/ f.data[shaper] = "unset" /\ shaper \in f.can

IsCompiledIn(name) == name \in ShaperNames

\* The shaper the selection rule names, or NullName.
Expected(f, list) ==
  LET usable(name) == IsCompiledIn(name) /\ InitSucceeds(f, name)
      listed == SelectSeq(list.names, usable)
      table == SelectSeq(Shapers, usable)
  IN  IF ~list.null /\ listed # <<>> THEN Head(listed)
      ELSE IF table # <<>> THEN Head(table)
      ELSE NullName

\* C10: selection returns the first listed name that is compiled in and
\* initializes; otherwise the first shaper of the table that initializes;
\* unknown names change nothing; with a fallback that initializes the
\* result is never unresolved.
C10_Selection ==
  dFace.immutable =>
    LET want == Expected(dSel.before, dSel.list)
        known == [dSel.list EXCEPT !.names = SelectSeq(@, IsCompiledIn)]
        again == create2_key(Req("F", dSel.key.props, <<>>, <<>>, known), 0, 0,
                             hb_face_make_immutable(dSel.before))
    IN  /\ dSel.key.shaper_name = want
        /\ dSel.key.shaper_func =
             (IF want = NullName THEN NullFunc ELSE ShapeFunc(want))
        /\ again.key = dSel.key
        /\ again.face = dFace
        /\ InitSucceeds(dSel.before, "fallback") =>
             dSel.key.shaper_func # NullFunc

\* C10 witness: an unknown name was skipped, the listed graphite2 failed to
\* initialize, and the table's first working shaper, ot, was chosen.
C10_Witness ==
  /\ dSel.list = List(<<"bogus", "graphite2">>)
  /\ dSel.before.data["graphite2"] = "unset"
  /\ dFace.data["graphite2"] = "null"
  /\ dSel.key.shaper_name = "ot"

(***************************************************************************)
(* Further properties of the plan cache (Spec)                             *)
(***************************************************************************)
\* The step is thread t entering hb_shape_plan_create_cached2 and missing:
\* its lookup key has just been computed.
ComputesLookupKey(t) ==
  /\ thr[t].pc = "idle"
  /\ thr'[t].pc = "c2"
  /\ thr'[t].after = "cc_created"

\* The step is thread t running create2 as far as the plan's key.
ComputesPlanKey(t) ==
  /\ thr[t].pc = "c2"
  /\ \E p \in PlanIds : plans[p].state = "free" /\ plans'[p].state = "live"

\* C11 as claimed: a key of a face is computed only when the face is
\* immutable: create2 makes it so before it fills the plan's key, and a
\* create_cached2 call finds it so when it computes its lookup key.
C11_AsClaimed ==
  [][\A t \in Threads :
       /\ ComputesPlanKey(t) =>
            LET f == thr[t].req.face IN faces'[f].immutable
       /\ ComputesLookupKey(t) =>
            LET f == thr'[t].req.face IN faces[f].immutable]_vars

\* C12: the inert plan keeps its count and is never released, whatever
\* references and destroys are made on it, by callers or by create_cached2
\* when creation failed; a reference to it gives back the inert plan.
C12_SentinelNoOp ==
  /\ plans[EmptyPlan] = NullPlanObject
  /\ \A t \in Threads :
        ~(thr[t].pc = "d_release" /\ thr[t].dplan = EmptyPlan)
  /\ \A e \in Returned :
        (e.path = "published" /\ ~ServedByCache(e)) => e.plan = EmptyPlan

\* C12 witness: one call published a node for the inert plan and returned a
\* reference to it, and another has destroyed the inert plan after its
\* cmpexch failed.
C12_Witness ==
  /\ \E e \in Returned : e.path = "published" /\ e.plan = EmptyPlan
  /\ held[EmptyPlan] > 0
  /\ \E t \in Threads :
        /\ thr[t].pc = "cc_free_node"
        /\ thr[t].shape_plan = EmptyPlan

\* The step is thread t returning from line 508 after its cmpexch
\* succeeded.
Publishes(t) == thr[t].pc = "cc_publish" /\ thr'[t].pc = "idle"

NodesOf(f, p) == {n \in ReachableSet(f) : PlanOfNode(n) = p}

\* C13 as claimed: after a successful cmpexch the plan the call created is
\* in the face's list and is returned with reference count 1.
C13_AsClaimed ==
  [][\A t \in Threads :
       (Publishes(t) /\ thr[t].shape_plan # EmptyPlan) =>
         /\ NodesOf(thr[t].req.face, thr[t].shape_plan) # {}
         /\ plans'[thr[t].shape_plan].ref_count = 1]_vars

\* C13 as amended: after a successful cmpexch the node the call made is in
\* the face's list, and the call returns a new reference to the node's
\* plan: the count of a created plan goes up by one, to at least 2, one
\* reference being the cache's and one the caller's.
C13_Published ==
  [][\A t \in Threads :
       Publishes(t) =>
         LET p == thr[t].shape_plan
         IN  /\ thr[t].node \in NodesOf(thr[t].req.face, p)
             /\ held'[p] = held[p] + 1
             /\ p # EmptyPlan =>
                  /\ plans[p].state = "live"
                  /\ plans[p].ref_count >= 1
                  /\ plans'[p].ref_count = plans[p].ref_count + 1]_vars

\* C13 witness: a call has published the plan it created and returned it;
\* the plan is in the list of face F with count 2, the caller holding one
\* reference.
C13_Witness ==
  \E e \in Returned :
     /\ e.path = "published"
     /\ e.plan # EmptyPlan
     /\ NodesOf("F", e.plan) # {}
     /\ plans[e.plan].ref_count = 2
     /\ held[e.plan] = 1

\* Thread t is between a failed cmpexch (line 500) and goto retry (line 504).
InDiscard(t) ==
  \/ thr[t].pc \in {"d_dec", "d_release"} /\ thr[t].after = "cc_free_node"
  \/ thr[t].pc = "cc_free_node"

Heads == {faces[f].shape_plans : f \in DOMAIN faces}
AllReachable == UNION {ReachableSet(f) : f \in DOMAIN faces}

\* What holds of a thread in a discard: its node is its own, and until the
\* plan it built is released no caller and no list has it.
DiscardIsPrivate(t) ==
  InDiscard(t) =>
    /\ nodes[thr[t].node].state = "live"
    /\ thr[t].node \notin AllReachable
    /\ (thr[t].pc # "cc_free_node" /\ thr[t].dplan # EmptyPlan) =>
         /\ thr[t].dplan = thr[t].shape_plan
         /\ plans[thr[t].dplan].state = "live"
         /\ plans[thr[t].dplan].ref_count =
              (IF thr[t].pc = "d_dec" THEN 1 ELSE 0)
         /\ held[thr[t].dplan] = 0
         /\ thr[t].dplan \notin CachedPlans

\* The steps of a discard, in the order of lines 502-504 and 471-483.
DiscardSteps(t) ==
  /\ (thr[t].pc = "cc_created" /\ thr'[t].pc = "d_dec") =>
       /\ faces[thr[t].req.face].shape_plans # thr[t].cached_plan_nodes
       /\ faces' = faces
  /\ (InDiscard(t) /\ thr[t].pc = "d_dec" /\ thr'[t] # thr[t]) =>
       /\ thr'[t].pc = (IF thr[t].dplan = EmptyPlan THEN "cc_free_node"
                        ELSE "d_release")
       /\ thr'[t].node = thr[t].node
  /\ (InDiscard(t) /\ thr[t].pc = "d_release" /\ thr'[t] # thr[t]) =>
       /\ plans'[thr[t].dplan].state = "free"
       /\ thr'[t].pc = "cc_free_node"
       /\ thr'[t].node = thr[t].node
       /\ hist'.faults = hist.faults
  /\ (thr[t].pc = "cc_free_node" /\ thr'[t] # thr[t]) =>
       /\ nodes'[thr[t].node].state = "free"
       /\ thr'[t].pc = "cc_retry"
  /\ (thr[t].pc = "cc_retry" /\ thr'[t] # thr[t]) =>
       LET head == faces[thr[t].req.face].shape_plans
           hit == FirstMatch(head, thr[t].key)
       IN  /\ faces' = faces /\ nodes' = nodes
           /\ \A p \in PlanIds : plans'[p].state = plans[p].state
           /\ IF hit = 0
              THEN /\ thr'[t].pc = "c2"
                   /\ thr'[t].cached_plan_nodes = head
              ELSE /\ thr'[t].pc = "idle"
                   /\ held'[PlanOfNode(hit)] = held[PlanOfNode(hit)] + 1

\* A head changes only by the cmpexch of a thread that read the value the
\* head still holds, and the node stored points at that value.
NoStaleInsert ==
  \A f \in DOMAIN faces :
     faces'[f].shape_plans # faces[f].shape_plans =>
       \E t \in Threads :
          /\ thr[t].pc = "cc_created" /\ thr'[t].pc = "cc_publish"
          /\ thr[t].req.face = f
          /\ thr[t].cached_plan_nodes = faces[f].shape_plans
          /\ thr'[t].node = faces'[f].shape_plans
          /\ nodes'[thr'[t].node].next = faces[f].shape_plans

\* C14: when the cmpexch fails the plan built and its node stay private to
\* the call, the plan is destroyed once and the node freed, and the call
\* goes back to read the current head and scan it before it builds again;
\* no node is ever stored over a head other than the one its call read.
C14_DiscardAndRetry ==
  [][/\ NoStaleInsert
     /\ \A t \in Threads : DiscardIsPrivate(t) /\ DiscardSteps(t)]_vars

\* C14 witness: a call lost the cmpexch to another call, has destroyed the
\* plan it built and is about to free its node, which is in no list.
C14_Witness ==
  \E t \in Threads :
     /\ thr[t].pc = "cc_free_node"
     /\ thr[t].shape_plan # EmptyPlan
     /\ plans[thr[t].shape_plan].state = "free"
     /\ nodes[thr[t].node].state = "live"
     /\ thr[t].node \notin AllReachable
     /\ faces[thr[t].req.face].shape_plans # thr[t].cached_plan_nodes

\* The step is thread t at lines 493-495 of a cacheable call getting no
\* node from calloc.
NodeAllocFails(t) ==
  /\ thr[t].pc = "cc_created"
  /\ ~thr[t].dont_cache
  /\ thr'[t] # thr[t]
  /\ nodes' = nodes

\* C15: a cacheable call whose node allocation fails returns the plan
\* create2 gave it at once: no retry, no cmpexch, no change to any list, and
\* a plan that was built is returned with count 1, uncached.
C15_NodeAllocFailure ==
  [][\A t \in Threads :
       NodeAllocFails(t) =>
         LET p == thr[t].shape_plan
         IN  /\ thr'[t].pc = "idle"
             /\ faces' = faces /\ plans' = plans
             /\ held'[p] = held[p] + 1
             /\ \E e \in hist'.returned :
                   e.path = "node_failed" /\ e.plan = p /\ e.req = thr[t].req
             /\ p # EmptyPlan =>
                  /\ plans'[p].state = "live"
                  /\ plans'[p].ref_count = 1
                  /\ held[p] = 0
                  /\ p \notin CachedPlans]_vars

\* C15 witness: a call on face F returned the plan it built because its
\* node allocation failed; the plan has count 1 and the list of F is empty.
C15_Witness ==
  \E e \in Returned :
     /\ e.path = "node_failed"
     /\ e.req.face = "F"
     /\ e.plan # EmptyPlan
     /\ plans[e.plan].state = "live"
     /\ plans[e.plan].ref_count = 1
     /\ held[e.plan] = 1
     /\ faces["F"].shape_plans = 0
     /\ \A n \in NodeIds : nodes[n].state = "free"

\* The step is a call returning e from the scan of lines 477-483: on its
\* first pass, e being a new entry of the log, or on a pass after goto
\* retry.
Hits(e) ==
  /\ e \in hist'.returned
  /\ e.path = "hit"
  /\ \/ e \notin hist.returned
     \/ \E t \in Threads :
           /\ thr[t].pc = "cc_retry" /\ thr'[t].pc = "idle"
           /\ e.req = thr[t].req /\ e.key = thr[t].key
           /\ held'[e.plan] # held[e.plan]

\* C16: a hit returns the plan of the first node of the list whose key
\* equals the request's, with one reference more; no plan is built, no node
\* or array allocated, and no head or node changes.
C16_CacheHit ==
  [][\A e \in hist'.returned :
       Hits(e) =>
         LET head == faces[e.req.face].shape_plans
             hit == FirstMatch(head, e.key)
             p == e.plan
         IN  /\ ~hb_shape_plan_key_dont_cache(e.key)
             /\ hit # 0
             /\ p = PlanOfNode(hit)
             /\ p # EmptyPlan
             /\ plans[p].state = "live"
             /\ plans' = [plans EXCEPT ![p].ref_count = @ + 1,
                                       ![p].n_ref = @ + 1]
             /\ held' = [held EXCEPT ![p] = @ + 1]
             /\ nodes' = nodes
             /\ arrays' = arrays
             /\ \A f \in DOMAIN faces :
                   faces'[f].shape_plans = faces[f].shape_plans]_vars

\* C16 witness: a call found the plan another call had published: the plan
\* has the cache's reference and one for each of the two callers.
C16_Witness ==
  \E e \in Returned :
     /\ e.path = "hit"
     /\ e.plan # EmptyPlan
     /\ e.plan \in CachedPlans
     /\ plans[e.plan].ref_count = 3
     /\ held[e.plan] = 2

\* C17 as claimed: a cacheable call in which plan creation fails leaves the
\* list as it was: no node in a list wraps the inert plan.
C17_AsClaimed ==
  \A n \in AllReachable : PlanOfNode(n) # EmptyPlan

\* The references to plan p that are owned: the callers' and the cache's.
Owned(p) == held[p] + Cardinality({n \in AllReachable : PlanOfNode(n) = p})

C19_AppendOnly ==
  [][\A f \in DOMAIN faces :
       LET old == faces[f].shape_plans
           new == faces'[f].shape_plans
       IN  /\ \A n \in ReachableSet(f) :
                 nodes'[n] = nodes[n] /\ nodes[n].state = "live"
           /\ new # old =>
                /\ new # 0
                /\ new \notin AllReachable
                /\ nodes[new].state = "free"
                /\ nodes'[new].next = old
                /\ ReachableSet(f)' = ReachableSet(f) \cup {new}]_vars

\* C19 witness: the list of face F holds two nodes with different plans,
\* the head's next being the node published first.
C19_Witness ==
  LET head == faces["F"].shape_plans
  IN  /\ head # 0
      /\ nodes[head].next # 0
      /\ nodes[nodes[head].next].next = 0
      /\ PlanOfNode(head) # EmptyPlan
      /\ PlanOfNode(nodes[head].next) # EmptyPlan
      /\ PlanOfNode(head) # PlanOfNode(nodes[head].next)

(***************************************************************************)
(* Properties of contention (SpecContend)                                  *)
(***************************************************************************)
CallsMade == Cardinality(Contenders) - budget.calls

\* C20 as claimed, its bound: the failed exchanges of a run are no more
\* than the calls made.
C20_AsClaimed == hist.retries <= CallsMade

\* The nodes stored in the head of F after the value head was read.
NewerThan(head) ==
  ReachableSet("F") \ {ListFrom(head)[i] : i \in 1..Len(ListFrom(head))}

\* An exchange fails only when a node was stored in the head after the
\* call read it, and that node is another call's.
FailsOnlyToSuccess ==
  \A t \in Contenders :
     (thr[t].pc = "cc_created" /\ thr'[t].pc = "d_dec") =>
       /\ NewerThan(thr[t].cached_plan_nodes) # {}
       /\ thr'[t].node \notin ReachableSet("F")'

\* While a call is between its head read and its exchange, the calls
\* that are not have stored a node or have yet to be made: some call has
\* completed its exchange whenever one fails.
C20_Bound == 2 * hist.retries <= CallsMade * (CallsMade - 1)

\* C20 as amended: under fair scheduling every call returns; an exchange
\* fails only if another call's exchange on the head succeeded after the
\* failing call read the head; the failed exchanges of n calls number at
\* most n (n - 1) / 2.
C20_Progress ==
  /\ [](C20_Bound /\ hist.faults = {})
  /\ [][FailsOnlyToSuccess]_vars
  /\ <>[](\A t \in Contenders : thr[t].pc = "idle")

\* C20 witness: four calls with four keys have returned, each with the
\* plan it published, after six failed exchanges between them.
C20_Witness ==
  /\ budget.calls = 0
  /\ \A t \in Contenders : thr[t].pc = "idle"
  /\ Cardinality({e \in Returned : e.path = "published"}) = 4
  /\ Len(Reachable("F")) = 4
  /\ hist.retries = 6

====
